---- MODULE Spec2Model ----
(***************************************************************************)
(* Trace-level Reshape and Squeeze ops of tripy                            *)
(* (tripy/frontend/trace/ops/reshape.py): the public reshape() and         *)
(* squeeze() entry points, the nodes' rank / shape-tag inference and their *)
(* lowering to one flat-IR dynamic reshape.                                *)
(*                                                                         *)
(* A state holds the last public call, the node it built (if any), the     *)
(* error it raised (if any) and the flat IR the lowering pass emitted for  *)
(* the node.  Python's None is the empty sequence <<>>, a present value v  *)
(* is <<v>>.                                                               *)
(***************************************************************************)
EXTENDS Integers, Sequences, FiniteSets

VARIABLES pc, call, node, error, flat

vars == <<pc, call, node, error, flat>>

(* ------------------------------ bounds --------------------------------- *)

\* largest static size of an input dimension
MaxDim == 2
\* largest rank of an input tensor
MaxRank == 3
\* longest literal target shape handed to reshape()
MaxTargetLen == 2
\* longest dims tuple handed to squeeze()
MaxDimsLen == 3

(* ------------------------------ helpers -------------------------------- *)

None == <<>>

Some(v) == <<v>>

Range(s) == {s[i] : i \in 1..Len(s)}

SeqsUpTo(S, n) == UNION {[1..k -> S] : k \in 0..n}

RECURSIVE Prod(_)
Prod(s) == IF s = <<>> THEN 1 ELSE Head(s) * Prod(Tail(s))

\* get_trace_shape marks a dimension it cannot compute statically with -1
Unknown == -1

\* the wildcard entry of a reshape target shape
Wildcard == -1

(* ------------------------------ tensors -------------------------------- *)

\* A frontend tensor: its static shape, its dtype and whether it is a
\* tripy.Shape.  A Shape is a rank-1 int32 tensor.
Tensor(shape, dtype, isShape) ==
    [shape |-> shape, rank |-> Len(shape), dtype |-> dtype, isShape |-> isShape,
     values |-> None]

Inputs ==
    {Tensor(s, d, FALSE) : s \in SeqsUpTo(0..MaxDim, MaxRank), d \in {"float32", "int32"}}
    \cup {Tensor(<<n>>, "int32", TRUE) : n \in 0..MaxDim}

\* The static shapes a tensor-valued `shape` operand of reshape() can have:
\* rank 0, 1 or 2, each length a known size or Unknown.
ShapeOperands ==
    {Tensor(s, "int32", b) : s \in SeqsUpTo({Unknown} \cup 0..MaxTargetLen, 2), b \in {FALSE}}
    \cup {Tensor(<<n>>, "int32", TRUE) : n \in {Unknown} \cup 0..MaxTargetLen}

\* op_utils.get_trace_shape: the statically computed shape of a trace tensor
get_trace_shape(t) == t.shape

\* An entry of a literal target shape: a Python int, or a scalar Tensor whose
\* run-time value is num.  A Python float (the result of int / int) is num/den.
IntEntry(v) == [kind |-> "int", num |-> v, den |-> 1]

TensorEntry(v) == [kind |-> "tensor", num |-> v, den |-> 1]

FloatEntry(n, d) == [kind |-> "float", num |-> n, den |-> d]

TargetEntries ==
    {IntEntry(v) : v \in Wildcard..MaxDim} \cup {TensorEntry(v) : v \in 1..MaxDim}

\* `isinstance(dim, int) and dim == -1`
IsWildcard(e) == e.kind = "int" /\ e.num = Wildcard

\* The outputs[0] placeholder of a node before inference
Placeholder == [dtype |-> None, rank |-> None, isShape |-> FALSE]

\* What an operation returns: a value, or the exception it raised
Ok(v) == [ok |-> TRUE, val |-> v, exc |-> ""]

Raise(e) == [ok |-> FALSE, val |-> None, exc |-> e]

(* ------------------------------ Reshape -------------------------------- *)

\* Reshape.infer_dtypes
ReshapeInferDtypes(n) == [n EXCEPT !.outputs.dtype = Some(n.inputs[1].dtype)]

\* Reshape.infer_len
ReshapeInferLen(n) == IF n.output_len # None THEN <<n.output_len>> ELSE <<None>>

\* Reshape.infer_shape_output_idxs: the indices of the outputs to wrap as Shape
ReshapeInferShapeOutputIdxs(n) ==
    IF n.inputs[1].isShape /\ n.output_rank = Some(1) THEN {0} ELSE {}

\* Reshape.infer_rank without its second assert: the length of the shape
\* operand is stored even when it is not a known non-negative size
ReshapeInferRankUnchecked(n) ==
    IF n.output_rank = None
    THEN LET shape_of_shape_input == get_trace_shape(n.inputs[2])
         IN  IF Len(shape_of_shape_input) # 1 THEN Raise("AssertionError")
             ELSE Ok([n EXCEPT !.outputs.rank = Some(shape_of_shape_input[1])])
    ELSE Ok([n EXCEPT !.outputs.rank = n.output_rank])

\* Reshape.infer_rank; a failed assert raises AssertionError
ReshapeInferRank(n) ==
    IF n.output_rank = None
    THEN LET shape_of_shape_input == get_trace_shape(n.inputs[2])
         IN  IF Len(shape_of_shape_input) # 1 THEN Raise("AssertionError")
             ELSE IF ~(shape_of_shape_input[1] >= 0) THEN Raise("AssertionError")
             ELSE Ok([n EXCEPT !.outputs.rank = Some(shape_of_shape_input[1])])
    ELSE Ok([n EXCEPT !.outputs.rank = n.output_rank])

\* BaseTraceOp.build for Reshape: allocate the output placeholder, then run
\* dtype, rank and shape-tag inference in that order; an exception aborts the
\* construction and no node is returned.
ReshapeBuild(inputs, output_rank, output_len) ==
    LET n0 == [kind |-> "Reshape", inputs |-> inputs, outputs |-> Placeholder,
               output_rank |-> output_rank, output_len |-> output_len]
        n1 == ReshapeInferDtypes(n0)
        r2 == ReshapeInferRank(n1)
    IN  IF ~r2.ok THEN r2
        ELSE Ok([r2.val EXCEPT !.outputs.isShape = (0 \in ReshapeInferShapeOutputIdxs(r2.val))])

\* convert_inputs_to_tensors(shape_argument=["shape"]): the literal target
\* shape becomes a rank-1 shape tensor holding the resolved entries
ShapeToTensor(shape) ==
    [shape |-> <<Len(shape)>>, rank |-> 1, dtype |-> "int32", isShape |-> TRUE,
     values |-> Some(shape)]

\* reshape_impl
reshape_impl(input, shape, output_rank, output_len) ==
    ReshapeBuild(<<input, ShapeToTensor(shape)>>, output_rank, output_len)

\* compute_unknown_dim, lines 107-111: the product of the entries that are not
\* the wildcard; a Python int unless some entry is a scalar Tensor
KnownDimsProduct(out_shape) ==
    LET known == SelectSeq(out_shape, LAMBDA e : ~IsWildcard(e))
    IN  [kind |-> IF \A i \in 1..Len(known) : known[i].kind = "int" THEN "int" ELSE "tensor",
         num |-> Prod([i \in 1..Len(known) |-> known[i].num])]

\* compute_unknown_dim, lines 114-117: the product of the input's sizes.  The
\* sizes are scalars of the input's shape tensor, so the product is the Python
\* int 1 for a rank-0 input and a scalar Tensor otherwise.
TotalElements(input_tensor) ==
    [kind |-> IF input_tensor.rank = 0 THEN "int" ELSE "tensor",
     num |-> Prod(input_tensor.shape)]

\* compute_unknown_dim, line 120: total_elements / known_dims_product, the set
\* of results the division can have.  Two Python ints divide to a float (or
\* raise ZeroDivisionError); with a Tensor operand the division is the
\* element-wise integer division of shape scalars, which truncates and whose
\* value for a zero divisor is not defined.
InferredDim(total, known) ==
    IF total.kind = "int" /\ known.kind = "int"
    THEN IF known.num = 0 THEN {Raise("ZeroDivisionError")}
         ELSE {Ok(FloatEntry(total.num, known.num))}
    ELSE IF known.num = 0 THEN {Ok(TensorEntry(q)) : q \in 0..MaxDim}
         ELSE {Ok(TensorEntry(total.num \div known.num))}

\* compute_unknown_dim
compute_unknown_dim(input_tensor, out_shape) ==
    InferredDim(TotalElements(input_tensor), KnownDimsProduct(out_shape))

\* reshape, line 136-137: output_len is known for a Shape input reshaped to a
\* one-entry target whose entry is a Python int
OutputLen(input, shape) ==
    IF input.isShape /\ Len(shape) = 1 /\ shape[1].kind = "int"
    THEN Some(shape[1].num) ELSE None

\* reshape with a literal target shape, lines 124-139: the set of outcomes
reshape(input, shape) ==
    LET wild == {i \in 1..Len(shape) : IsWildcard(shape[i])}
    IN  IF Cardinality(wild) >= 2 THEN {Raise("TripyException")}
        ELSE IF Cardinality(wild) = 1
        THEN LET unknown_dim_index == CHOOSE i \in wild : TRUE
             IN  {IF ~d.ok THEN d
                  ELSE LET resolved == [shape EXCEPT ![unknown_dim_index] = d.val]
                       IN  reshape_impl(input, resolved, Some(Len(resolved)),
                                        OutputLen(input, resolved))
                  : d \in compute_unknown_dim(input, shape)}
        ELSE {reshape_impl(input, shape, Some(Len(shape)), OutputLen(input, shape))}

\* reshape with a tensor-valued target shape, lines 101-102
reshape_tensor(input, shape) == ReshapeBuild(<<input, shape>>, None, None)

\* Reshape.to_flat_ir: one DynamicReshapeOp on the node's own two inputs
ReshapeToFlatIR(n) ==
    [ops |-> <<"DynamicReshapeOp">>, target_kind |-> "operand",
     target |-> n.inputs[2].values]

(* ------------------------------ Squeeze -------------------------------- *)

\* Squeeze.infer_dtypes
SqueezeInferDtypes(n) == [n EXCEPT !.outputs.dtype = Some(n.inputs[1].dtype)]

\* ShapeOutputIdxPolicies.never_return_shape
SqueezeInferShapeOutputIdxs(n) == {}

\* list.sort(reverse=True)
RECURSIVE SortDescending(_)
SortDescending(s) ==
    IF s = <<>> THEN <<>>
    ELSE LET m == CHOOSE x \in Range(s) : \A y \in Range(s) : y <= x
             k == CHOOSE i \in 1..Len(s) : s[i] = m
         IN  <<m>> \o SortDescending(SubSeq(s, 1, k - 1) \o SubSeq(s, k + 1, Len(s)))

\* squeeze_shape, lines 172-176: pop each index in turn; Python list indexing
\* takes a negative index from the end and raises IndexError out of range
RECURSIVE PopIndices(_, _)
PopIndices(shape, indices) ==
    IF indices = <<>> THEN Ok(shape)
    ELSE LET idx == Head(indices)
             pos == IF idx < 0 THEN idx + Len(shape) + 1 ELSE idx + 1
         IN  IF pos < 1 \/ pos > Len(shape) THEN Raise("IndexError")
             ELSE IF shape[pos] = 1
             THEN PopIndices(SubSeq(shape, 1, pos - 1) \o SubSeq(shape, pos + 1, Len(shape)),
                             Tail(indices))
             ELSE Raise("ValueError")

\* squeeze_shape keeping only the sizes above 1, so that a size of 0 is
\* dropped with the size-1 dimensions
squeeze_shape_dropping_zero(shape, indices_to_squeeze) ==
    IF indices_to_squeeze = <<>>
    THEN Ok(SelectSeq(shape, LAMBDA dim : dim > 1))
    ELSE PopIndices(shape, SortDescending(indices_to_squeeze))

\* squeeze_shape
squeeze_shape(shape, indices_to_squeeze) ==
    IF indices_to_squeeze = <<>>
    THEN Ok(SelectSeq(shape, LAMBDA dim : dim # 1))
    ELSE PopIndices(shape, SortDescending(indices_to_squeeze))

\* Squeeze.infer_rank; len(None) raises TypeError
SqueezeInferRank(n) ==
    IF n.dims = None THEN Raise("TypeError")
    ELSE IF Len(n.dims[1]) > 0
    THEN Ok([n EXCEPT !.outputs.rank = Some(n.inputs[1].rank - Len(n.dims[1]))])
    ELSE LET input_0_shape == get_trace_shape(n.inputs[1])
             out_shape == squeeze_shape(input_0_shape, n.dims[1])
         IN  IF ~out_shape.ok THEN out_shape
             ELSE Ok([n EXCEPT !.outputs.rank = Some(Len(out_shape.val)),
                               !.out_shape = Some(out_shape.val)])

\* BaseTraceOp.build for Squeeze: dtype, rank and shape-tag inference in that
\* order; an exception aborts the construction and no node is returned.
SqueezeBuild(inputs, dims, out_shape) ==
    LET n0 == [kind |-> "Squeeze", inputs |-> inputs, outputs |-> Placeholder,
               dims |-> dims, out_shape |-> out_shape]
        n1 == SqueezeInferDtypes(n0)
        r2 == SqueezeInferRank(n1)
    IN  IF ~r2.ok THEN r2
        ELSE Ok([r2.val EXCEPT !.outputs.isShape = (0 \in SqueezeInferShapeOutputIdxs(r2.val))])

\* The dims argument of squeeze(): left out (None), an int, or a tuple
DimsNone == [kind |-> "none", val |-> <<>>]

DimsInt(i) == [kind |-> "int", val |-> <<i>>]

DimsTuple(t) == [kind |-> "tuple", val |-> t]

\* squeeze, lines 248-251: an int becomes a one-entry tuple
squeeze(input, dims) ==
    LET d == IF dims.kind = "none" THEN None ELSE Some(dims.val)
    IN  SqueezeBuild(<<input>>, d, None)

\* Squeeze.to_flat_ir, line 188: [i for i in range(rank) if i not in dims]
RECURSIVE SelectFrom(_, _, _)
SelectFrom(i, rank, dims) ==
    IF i >= rank THEN <<>>
    ELSE (IF i \in Range(dims) THEN <<>> ELSE <<i>>) \o SelectFrom(i + 1, rank, dims)

\* select_indices taken in the order of dims: the first len(dims) positions
\* are dropped instead of the indices dims names
SelectIndicesPositional(rank, dims) ==
    SelectFrom(0, rank, [k \in 1..Len(dims) |-> k - 1])

\* Squeeze.to_flat_ir, line 188: select_indices over range(inputs[0].rank)
SelectIndices(rank, dims) == SelectFrom(0, rank, dims)

\* Squeeze.to_flat_ir: the helper calls made, the kind of the target shape
\* tensor and the sizes it holds when the node is run
SqueezeToFlatIR(n) ==
    IF Len(n.dims[1]) > 0
    THEN LET select_indices == SelectIndices(n.inputs[1].rank, n.dims[1])
             shape_slice == [k \in 1..Len(select_indices) |->
                                n.inputs[1].shape[select_indices[k] + 1]]
             slices == [k \in 1..Len(select_indices) |-> "slice_rank1_tensor"]
         IN  IF Len(shape_slice) > 0
             THEN [ops |-> <<"get_shape_of_tensor">> \o slices
                           \o <<"concatenate_tensors", "DynamicReshapeOp">>,
                   target_kind |-> "concatenate", target |-> Some(shape_slice)]
             ELSE [ops |-> <<"get_shape_of_tensor", "add_constant_tensor_from_list",
                             "DynamicReshapeOp">>,
                   target_kind |-> "constant", target |-> Some(<<>>)]
    ELSE [ops |-> <<"add_constant_tensor_from_list", "DynamicReshapeOp">>,
          target_kind |-> "constant", target |-> n.out_shape]

(* --------------------------- state machine ----------------------------- *)

NoCall == [fn |-> "none"]

NoFlat == [ops |-> <<>>, target_kind |-> "none", target |-> None]

\* indices a caller may name: in range, negative, or past the last dimension
DimIndices == (0 - 1)..MaxRank

DimsArgs ==
    {DimsNone} \cup {DimsInt(i) : i \in DimIndices}
    \cup {DimsTuple(t) : t \in SeqsUpTo(DimIndices, MaxDimsLen)}

Init ==
    /\ pc = "idle"
    /\ call = NoCall
    /\ node = None
    /\ error = ""
    /\ flat = NoFlat

\* The outcome r of a call becomes the state: the node, or the exception
Returned(r) ==
    /\ pc' = IF r.ok THEN "built" ELSE "failed"
    /\ node' = IF r.ok THEN Some(r.val) ELSE None
    /\ error' = r.exc
    /\ flat' = NoFlat

CallReshape ==
    /\ pc = "idle"
    /\ \E input \in Inputs, shape \in SeqsUpTo(TargetEntries, MaxTargetLen) :
        \E r \in reshape(input, shape) :
            /\ call' = [fn |-> "reshape", input |-> input, shape |-> shape]
            /\ Returned(r)

CallReshapeTensor ==
    /\ pc = "idle"
    /\ \E input \in Inputs, shape \in ShapeOperands :
        /\ call' = [fn |-> "reshape_tensor", input |-> input, shape |-> shape]
        /\ Returned(reshape_tensor(input, shape))

CallSqueeze ==
    /\ pc = "idle"
    /\ \E input \in Inputs, dims \in DimsArgs :
        /\ call' = [fn |-> "squeeze", input |-> input, dims |-> dims]
        /\ Returned(squeeze(input, dims))

\* The lowering pass reads the node and emits its flat IR
Lower ==
    /\ pc = "built"
    /\ pc' = "lowered"
    /\ flat' = IF node[1].kind = "Reshape" THEN ReshapeToFlatIR(node[1])
                ELSE SqueezeToFlatIR(node[1])
    /\ UNCHANGED <<call, node, error>>

\* The call is over: its node (if any) goes with the graph that owned it
Discard ==
    /\ pc \in {"failed", "lowered"}
    /\ pc' = "idle"
    /\ call' = NoCall
    /\ node' = None
    /\ error' = ""
    /\ flat' = NoFlat

Next == CallReshape \/ CallReshapeTensor \/ CallSqueeze \/ Lower \/ Discard

Spec == Init /\ [][Next]_vars

(* ------------------------------ properties ----------------------------- *)

\* the number of wildcard entries of a literal target shape
WildcardCount(shape) == Cardinality({i \in 1..Len(shape) : IsWildcard(shape[i])})

\* The product of the resolved target entries of a Reshape node built from a
\* literal shape equals the product of the input's sizes (entries are num/den)
ElementCountPreserved(n) ==
    LET vals == n.inputs[2].values[1]
    IN  Prod([i \in 1..Len(vals) |-> vals[i].num])
            = Prod(n.inputs[1].shape) * Prod([i \in 1..Len(vals) |-> vals[i].den])

\* the input's sizes that are not 1, in their original order
NonSingleton(shape) == SelectSeq(shape, LAMBDA d : d # 1)

\* the indices of the input's size-1 dimensions
SingletonIndices(shape) == {i \in 0..(Len(shape) - 1) : shape[i + 1] = 1}

\* dims lists every size-1 index of shape exactly once, in some order
ListsAllSingletons(dims, shape) ==
    /\ Range(dims) = SingletonIndices(shape)
    /\ Len(dims) = Cardinality(SingletonIndices(shape))

\* The sizes of shape at the indices of kept, in ascending index order
SizesAt(shape, kept) ==
    LET nth(k) == CHOOSE i \in kept : Cardinality({j \in kept : j < i}) = k - 1
    IN  [k \in 1..Cardinality(kept) |-> shape[nth(k) + 1]]

\* C1: reshape with a literal target: two or more -1 entries fail with an
\* error and build no node; exactly one -1 entry is replaced by a resolved
\* dimension such that the product of the resolved target entries equals the
\* product of the input's sizes.
C1_WildcardResolved ==
    call.fn = "reshape" =>
        /\ WildcardCount(call.shape) >= 2 =>
                pc = "failed" /\ node = None /\ error = "TripyException"
        /\ WildcardCount(call.shape) = 1 =>
                /\ node # None
                /\ WildcardCount(node[1].inputs[2].values[1]) = 0
                /\ ElementCountPreserved(node[1])

\* C2: every constructed Reshape node has its output tagged Shape iff input 0
\* is tagged Shape and the rank inference wrote rank 1 to outputs[0], whether
\* output_rank was given or derived from a tensor-valued shape operand.
C2_ShapeTagIffRankOne ==
    (node # None /\ node[1].kind = "Reshape") =>
        (node[1].outputs.isShape
            <=> (node[1].inputs[1].isShape /\ node[1].outputs.rank = Some(1)))

\* C3: squeeze with dims listing exactly the size-1 indices, in any order,
\* gets the output rank and the lowered target shape that squeeze with
\* dims=() gets for the same input.
C3_SqueezeEquivalence ==
    (pc = "lowered" /\ call.fn = "squeeze" /\ call.dims.kind = "tuple"
        /\ ListsAllSingletons(call.dims.val, call.input.shape)) =>
        LET all == squeeze(call.input, DimsTuple(<<>>))
        IN  /\ all.ok
            /\ node[1].outputs.rank = all.val.outputs.rank
            /\ flat.target = SqueezeToFlatIR(all.val).target

\* C3 witness: indices (1, 0) of shape (1, 1, 2), listed in descending order,
\* were squeezed and lowered
C3_Witness ==
    /\ pc = "lowered"
    /\ call.fn = "squeeze"
    /\ call.dims = DimsTuple(<<1, 0>>)
    /\ call.input.shape = <<1, 1, 2>>
    /\ flat.target = Some(<<2>>)

\* C4: squeeze called without dims constructs a Squeeze node whose out_shape is
\* the input's shape without its size-1 dimensions, in order, and whose output
\* rank is the length of that shape.
C4_SqueezeDefaultBuilds ==
    (call.fn = "squeeze" /\ call.dims.kind = "none") =>
        /\ node # None
        /\ node[1].out_shape = Some(NonSingleton(call.input.shape))
        /\ node[1].outputs.rank = Some(Len(NonSingleton(call.input.shape)))

\* C5: squeeze with non-empty explicit dims raises, and builds no node,
\* whenever a named dimension of the input has a static size other than 1.
C5_NonSingletonRaises ==
    (call.fn = "squeeze" /\ call.dims.kind # "none" /\ call.dims.val # <<>>
        /\ \E i \in Range(call.dims.val) :
               i \in 0..(call.input.rank - 1) /\ call.input.shape[i + 1] # 1) =>
        (pc = "failed" /\ node = None)

\* C6: the rank inferred for the output of any Reshape or Squeeze node is
\* never negative.
C6_RankNonNegative ==
    node # None => (node[1].outputs.rank # None /\ node[1].outputs.rank[1] >= 0)

\* C7: every reshape call with a literal target that builds a node preserves
\* the element count: the product of the input's sizes equals the product of
\* the resolved target entries.
C7_ElementCountPreserved ==
    (call.fn = "reshape" /\ node # None) => ElementCountPreserved(node[1])

\* C8: Reshape rank inference: a given output_rank (the length of the literal
\* target) is the output rank; otherwise the output rank is the static length
\* of the shape operand, and when that is not a known non-negative length of a
\* rank-1 operand the construction fails and no rank is set.
C8_ReshapeRankInference ==
    /\ (call.fn = "reshape" /\ node # None) =>
            /\ node[1].output_rank = Some(Len(call.shape))
            /\ node[1].outputs.rank = node[1].output_rank
    /\ call.fn = "reshape_tensor" =>
            LET s == call.shape.shape
            IN  IF Len(s) = 1 /\ s[1] # Unknown /\ s[1] >= 0
                THEN /\ node # None
                     /\ node[1].output_rank = None
                     /\ node[1].outputs.rank = Some(s[1])
                ELSE pc = "failed" /\ node = None /\ error # ""

\* C8 witness: a reshape whose shape operand has an unknown length failed
C8_Witness ==
    /\ pc = "failed"
    /\ call.fn = "reshape_tensor"
    /\ call.shape.shape = <<Unknown>>
    /\ call.input.isShape

\* C9: lowering a Squeeze node with non-empty dims emits exactly one dynamic
\* reshape whose target is the input's sizes at the indices not in dims, in
\* ascending index order whatever the order of dims; with no index retained
\* the target is a constant empty shape tensor, not a concatenation.
C9_SqueezeLowering ==
    (pc = "lowered" /\ node[1].kind = "Squeeze" /\ Len(node[1].dims[1]) > 0) =>
        LET shape == node[1].inputs[1].shape
            kept == {i \in 0..(Len(shape) - 1) : i \notin Range(node[1].dims[1])}
        IN  /\ Cardinality({k \in 1..Len(flat.ops) : flat.ops[k] = "DynamicReshapeOp"}) = 1
            /\ flat.ops[Len(flat.ops)] = "DynamicReshapeOp"
            /\ flat.target = Some(SizesAt(shape, kept))
            /\ kept = {} => /\ flat.target_kind = "constant"
                             /\ "concatenate_tensors" \notin Range(flat.ops)
            /\ kept # {} => flat.target_kind = "concatenate"

\* C9 witness: indices (2, 0) of shape (1, 2, 1) were squeezed and lowered to
\* the target (2,)
C9_Witness ==
    /\ pc = "lowered"
    /\ node[1].kind = "Squeeze"
    /\ node[1].dims = Some(<<2, 0>>)
    /\ node[1].inputs[1].shape = <<1, 2, 1>>
    /\ flat.target = Some(<<2>>)
    /\ flat.target_kind = "concatenate"

\* C10: for every lowered Squeeze node the output rank set by infer_rank is the
\* number of entries of the target shape that to_flat_ir built.
C10_RankMatchesLoweredTarget ==
    (pc = "lowered" /\ node[1].kind = "Squeeze") =>
        node[1].outputs.rank = Some(Len(flat.target[1]))

====
